---- MODULE Spec2Model ----
(***************************************************************************)
(* Model of soooch/async-intuition: the hand-written futures               *)
(*   two_ways::a_then_b    (manual::DoAThenB and manual_opt::DoAThenB)     *)
(*   basics::sleep         (Sleep and its background thread)               *)
(*   two_ways::until_equals (auto::until_equals and manual::UntilEquals)   *)
(* Operands, wakers and the driver are external: their behaviour is drawn  *)
(* from small sets by the actions.                                         *)
(***************************************************************************)
EXTENDS Integers, Sequences, FiniteSets, TLC

\* ------------------------------------------------------------------ bounds
\* number of poll calls the driver issues to one DoAThenB
MaxCalls == 4

\* number of distinct wakers (executors) the driver may pass to Sleep::poll
NumWakers == 2
\* longest duration given to sleep(), in ticks
MaxDuration == 2
\* polls of a Sleep beyond the ones a woken driver issues: spurious re-polls
\* while pending and polls after Ready
MaxExtraPolls == 2

\* number of sub-operations the factory of until_equals can produce
MaxFactory == 3
\* the numbers 1..MaxValue a sub-operation can yield
MaxValue == 2
\* polls of an until_equals future beyond the ones a woken driver issues:
\* spurious re-polls while pending and polls after Ready
MaxRepCalls == 4

\* ------------------------------------------------------------ the state
\* op   the operation the driver owns in this run
\* seq  a_then_b: the DoAThenB future and the record of its operands
\* tm   sleep: the Sleep future, its Shared cell, its thread and the driver
\* rep  until_equals: the future, its factory and the sub-operations
VARIABLES op, seq, tm, rep

vars == <<op, seq, tm, rep>>

\* results an operand's poll can produce
OperandOutcomes == {"Pending", "Ready"}

\* what a use of an already-destroyed operand does in a given build: the
\* memory is still intact and the use behaves as usual, or the process dies
UbOutcomes == {"benign", "abort"}

SeqInputs == [a : OperandOutcomes, b : OperandOutcomes, ub : UbOutcomes]

\* ===================================================== two_ways::a_then_b
\* DoAThenB::new: both operands captured, state DoingA. The other fields are
\* the instrumentation of the operands and of the driver:
\*   a_polls, b_polls  polls issued to each operand
\*   a_drops, b_drops  destructor runs of each operand
\*   b_takes           reads of B out of the DoingA slot (ManuallyDrop::take,
\*                     MaybeUninit::assume_init_read)
\*   stale_uses        reads or drops of the DoingA slot of B after the take
\*   log               "A" / "B" recorded by an operand when it completes
\*   last              result of the last poll call ("Running" inside a call)
\*   call_polls        operand polls issued by the last poll call, in order
\*   call_drops        operands destroyed by the last call, in order
new(impl) ==
    [impl |-> impl, variant |-> "DoingA", owned |-> TRUE,
     a_polls |-> 0, b_polls |-> 0, a_drops |-> 0, b_drops |-> 0,
     b_takes |-> 0, stale_uses |-> 0, log |-> <<>>,
     a_ready |-> FALSE, b_ready |-> FALSE,
     last |-> "None", calls |-> 0, readys |-> 0,
     call_polls |-> <<>>, call_drops |-> <<>>,
     b_polled_early |-> FALSE, used_after_ready |-> FALSE]

\* `return` of a poll call / the panic unwinding out of it
ret(s, r) ==
    [s EXCEPT !.last = r,
              !.readys = IF r = "Ready" THEN @ + 1 ELSE @]

\* a.poll(cx): the first operand, which records "A" when it completes
poll_a(s, in) ==
    [s EXCEPT !.a_polls = @ + 1,
              !.call_polls = Append(@, "A"),
              !.used_after_ready = @ \/ s.a_ready,
              !.a_ready = @ \/ in.a = "Ready",
              !.log = IF in.a = "Ready" THEN Append(@, "A") ELSE @]

\* b.poll(cx): the second operand, which records "B" when it completes.
\* Polling it after its destructor has run is a use after destruction.
poll_b(s, in) ==
    IF s.b_drops > 0 /\ in.ub = "abort"
    THEN [s EXCEPT !.b_polls = @ + 1,
                   !.call_polls = Append(@, "B"),
                   !.last = "Abort"]
    ELSE [s EXCEPT !.b_polls = @ + 1,
                   !.call_polls = Append(@, "B"),
                   !.b_polled_early = @ \/ ~s.a_ready,
                   !.used_after_ready = @ \/ s.b_ready,
                   !.b_ready = @ \/ in.b = "Ready",
                   !.log = IF in.b = "Ready" THEN Append(@, "B") ELSE @]

\* unsafe { ManuallyDrop::take(b) } / unsafe { MaybeUninit::assume_init_read(b) }:
\* a bitwise read of B out of the DoingA slot; the slot keeps the stale bits
take_b(s) ==
    [s EXCEPT !.b_takes = @ + 1,
              !.stale_uses = IF s.b_takes > 0 THEN @ + 1 ELSE @]

\* the destructor of the first operand
drop_a(s) ==
    [s EXCEPT !.a_drops = @ + 1, !.call_drops = Append(@, "A")]

\* the destructor of the second operand; a second run is a double free
drop_b(s, in) ==
    [s EXCEPT !.b_drops = @ + 1,
              !.call_drops = Append(@, "B"),
              !.last = IF s.b_drops > 0 /\ in.ub = "abort" THEN "Abort" ELSE @]

\* the destructor of B run on the DoingA slot (ManuallyDrop::drop,
\* MaybeUninit::assume_init_drop)
drop_b_slot(s, in) ==
    [drop_b(s, in) EXCEPT !.stale_uses = IF s.b_takes > 0 THEN @ + 1 ELSE @]

\* manual: #[pinned_drop] impl PinnedDrop for DoAThenB
manual_pinned_drop_leak(s, in) == s
manual_pinned_drop(s, in) ==
    CASE s.variant = "DoingA" -> drop_b_slot(s, in)
      [] s.variant = "DoingB" -> s
      [] s.variant = "Done"   -> s

\* manual_opt: #[pinned_drop] impl PinnedDrop for DoAThenB
opt_pinned_drop(s, in) ==
    CASE s.variant = "DoingA" -> drop_b_slot(s, in)
      [] s.variant = "DoingB" -> s
      [] s.variant = "Done"   -> s

\* the drop glue of the enum, run after Drop::drop: the fields of the live
\* variant are dropped, except ManuallyDrop<B> / MaybeUninit<_> fields
drop_fields(s, in) ==
    IF s.last = "Abort" THEN s
    ELSE CASE s.variant = "DoingA" -> drop_a(s)
           [] s.variant = "DoingB" -> drop_b(s, in)
           [] s.variant = "Done"   -> s

\* dropping a DoAThenB in place: the Drop impl generated by
\* #[pin_project(PinnedDrop)] calls PinnedDrop::drop, then the glue runs
drop_in_place(s, in) ==
    drop_fields(IF s.impl = "manual" THEN manual_pinned_drop(s, in)
                                     ELSE opt_pinned_drop(s, in), in)

\* self.set(v): Pin::set is `*ptr = v`, which drops the old value in place
\* and then writes the new one
set(s, v, in) ==
    LET d == drop_in_place(s, in)
    IN  IF d.last = "Abort" THEN d ELSE [d EXCEPT !.variant = v]

\* ---- manual::DoAThenB::poll, one arm of the match per operator
manual_DoingA_no_ready(s, in) ==
    set(take_b(poll_a(s, in)), "DoingB", in)
manual_DoingA(s, in) ==
    LET s1 == poll_a(s, in)
    IN  IF in.a = "Pending" THEN ret(s1, "Pending")
        ELSE set(take_b(s1), "DoingB", in)

manual_DoingB_stay(s, in) ==
    LET s1 == poll_b(s, in)
    IN  IF s1.last = "Abort" THEN s1
        ELSE IF in.b = "Pending" THEN ret(s1, "Pending")
        ELSE ret(s1, "Ready")
manual_DoingB(s, in) ==
    LET s1 == poll_b(s, in)
    IN  IF s1.last = "Abort" THEN s1
        ELSE IF in.b = "Pending" THEN ret(s1, "Pending")
        ELSE LET s2 == set(s1, "Done", in)
             IN  IF s2.last = "Abort" THEN s2 ELSE ret(s2, "Ready")

manual_Done_ready(s, in) == ret(s, "Ready")
manual_Done(s, in) == ret(s, "Panic")

\* the `loop { match this { ... } }` of manual::DoAThenB::poll
RECURSIVE manual_loop(_, _)
manual_loop(s, in) ==
    IF s.last # "Running" THEN s
    ELSE manual_loop(CASE s.variant = "DoingA" -> manual_DoingA(s, in)
                       [] s.variant = "DoingB" -> manual_DoingB(s, in)
                       [] s.variant = "Done"   -> manual_Done(s, in), in)

\* ---- manual_opt::DoAThenB
doing_b_early_done(s, in) ==
    LET s1 == poll_b(s, in)
    IN  IF s1.last = "Abort" THEN s1
        ELSE LET s2 == set(s1, "Done", in)
             IN  IF s2.last = "Abort" THEN s2
                 ELSE ret(s2, in.b)
doing_b(s, in) ==
    LET s1 == poll_b(s, in)
    IN  IF s1.last = "Abort" THEN s1
        ELSE IF in.b = "Pending" THEN ret(s1, "Pending")
        ELSE LET s2 == set(s1, "Done", in)
             IN  IF s2.last = "Abort" THEN s2 ELSE ret(s2, "Ready")

doing_a_no_tail(s, in) ==
    LET s1 == poll_a(s, in)
    IN  IF in.a = "Pending" THEN ret(s1, "Pending")
        ELSE LET s2 == set(take_b(s1), "DoingB", in)
             IN  IF s2.last = "Abort" THEN s2 ELSE ret(s2, "Pending")
doing_a(s, in) ==
    LET s1 == poll_a(s, in)
    IN  IF in.a = "Pending" THEN ret(s1, "Pending")
        ELSE LET s2 == set(take_b(s1), "DoingB", in)
             IN  IF s2.last = "Abort" THEN s2 ELSE doing_b(s2, in)

opt_poll(s, in) ==
    CASE s.variant = "DoingA" -> doing_a(s, in)
      [] s.variant = "DoingB" -> doing_b(s, in)
      [] s.variant = "Done"   -> ret(s, "Panic")

\* one poll call by the driver
enter(s) ==
    [s EXCEPT !.last = "Running", !.calls = @ + 1,
              !.call_polls = <<>>, !.call_drops = <<>>]

poll(s, in) ==
    IF s.impl = "manual" THEN manual_loop(enter(s), in)
                         ELSE opt_poll(enter(s), in)

\* ------------------------------------------------------------ actions
SeqLive == op = "a_then_b" /\ seq.owned /\ seq.last # "Abort"

\* the driver polls the Sequencer; the operands answer in.a / in.b
Poll ==
    /\ SeqLive
    /\ seq.calls < MaxCalls
    /\ \E in \in SeqInputs : seq' = poll(seq, in)
    /\ UNCHANGED <<op, tm, rep>>

\* the owner discards the Sequencer
Discard ==
    /\ SeqLive
    /\ \E in \in SeqInputs :
         seq' = [drop_in_place([seq EXCEPT !.call_polls = <<>>,
                                            !.call_drops = <<>>], in)
                   EXCEPT !.owned = FALSE]
    /\ UNCHANGED <<op, tm, rep>>

\* ========================================================== basics::sleep
Wakers == 1..NumWakers
MaxElapsed == MaxDuration + 1

\* sleep(duration): the async fn is not started, Sleep { duration, handle: None }
\* is built by its first poll. The other fields:
\*   fn_state  state of the `sleep` async fn
\*   shared    Shared { waker, done } behind the Mutex (waker 0: no cell yet)
\*   lock      holder of the Mutex
\*   p_pc      position of the polling thread inside Sleep::poll
\*   w_pc      position of the spawned thread
\*   cx        waker of the current / last poll
\*   woken     wakers invoked since the last poll began
\*   elapsed   ticks since the first poll
\*   spawned, cells  threads spawned and Shared cells allocated
\*   first_waker     waker captured by the first poll
\*   pending_waker   waker of the last poll that returned Pending
\*   invoked         waker the spawned thread invoked
sleep(duration) ==
    [fn_state |-> "Unresumed", duration |-> duration, handle |-> "None",
     shared |-> [waker |-> 0, done |-> FALSE], lock |-> "free",
     p_pc |-> "idle", w_pc |-> "unspawned", cx |-> 0, woken |-> {},
     last |-> "None", readys |-> 0, polls |-> 0, extra |-> 0,
     elapsed |-> 0, spawned |-> 0, cells |-> 0, wakes |-> 0,
     first_waker |-> 0, pending_waker |-> 0, invoked |-> 0]

\* thread::spawn(move || { thread::sleep(duration); ... }): the new thread
\* starts in thread::sleep
spawn_lock_first(t) ==
    [t EXCEPT !.w_pc = "sleeping", !.spawned = @ + 1, !.lock = "worker"]
spawn(t) ==
    [t EXCEPT !.w_pc = "sleeping", !.spawned = @ + 1]

\* this.handle.get_or_insert_with(|| { ... thread::spawn(...) ... })
get_or_insert_with_always(t, w) ==
    spawn([t EXCEPT !.handle = "Some",
                    !.shared = [waker |-> w, done |-> FALSE],
                    !.first_waker = w,
                    !.cells = @ + 1])
get_or_insert_with(t, w) ==
    IF t.handle = "Some" THEN t
    ELSE spawn([t EXCEPT !.handle = "Some",
                         !.shared = [waker |-> w, done |-> FALSE],
                         !.first_waker = w,
                         !.cells = @ + 1])

\* the driver resumes the `sleep` async fn with waker w: a completed async fn
\* panics, otherwise Sleep::poll runs up to handle.lock()
sleep_resume_unguarded(t, w) ==
    [get_or_insert_with(t, w) EXCEPT !.fn_state = "Suspended",
                                     !.p_pc = "lock"]
sleep_resume(t, w) ==
    IF t.fn_state = "Returned"
    THEN [t EXCEPT !.last = "Panic"]
    ELSE [get_or_insert_with(t, w) EXCEPT !.fn_state = "Suspended",
                                          !.p_pc = "lock"]

driver_poll(t, w) ==
    [sleep_resume(t, w) EXCEPT !.cx = w, !.woken = {}, !.polls = @ + 1]

\* handle.lock() in Sleep::poll blocks until the Mutex is free
poller_can_lock_unlocked(t) == TRUE
poller_can_lock(t) == t.lock = "free"

\* handle.lock() in the spawned thread blocks until the Mutex is free
worker_can_lock_unlocked(t) == TRUE
worker_can_lock(t) == t.lock = "free"

\* thread::sleep(duration) returns once at least `duration` has passed
sleep_over_early(t) == TRUE
sleep_over(t) == t.elapsed >= t.duration

\* shared.waker.wake_by_ref(), then the guard is dropped and the thread ends
worker_wake_none(t) ==
    [t EXCEPT !.lock = "free", !.w_pc = "exited"]
worker_wake(t) ==
    [t EXCEPT !.woken = @ \cup {t.shared.waker}, !.wakes = @ + 1,
              !.invoked = t.shared.waker,
              !.lock = "free", !.w_pc = "exited"]

\* Poll::Ready(()) out of Sleep::poll: the guard is dropped, the async fn
\* returns
sleep_ready(t) ==
    [t EXCEPT !.lock = "free", !.p_pc = "idle", !.last = "Ready",
              !.readys = @ + 1, !.fn_state = "Returned"]

\* shared.waker.clone_from(cx.waker()); return Poll::Pending
sleep_pending_no_refresh(t) ==
    [t EXCEPT !.lock = "free", !.p_pc = "idle",
              !.last = "Pending", !.pending_waker = t.cx]
sleep_pending(t) ==
    [t EXCEPT !.shared.waker = t.cx, !.lock = "free", !.p_pc = "idle",
              !.last = "Pending", !.pending_waker = t.cx]

TimerIdle == op = "sleep" /\ tm.p_pc = "idle"

\* the driver polls for the first time, or again after the waker it passed last
\* was invoked
DriverPoll ==
    /\ TimerIdle
    /\ \/ tm.last = "None"
       \/ tm.last = "Pending" /\ tm.cx \in tm.woken
    /\ \E w \in Wakers : tm' = driver_poll(tm, w)
    /\ UNCHANGED <<op, seq, rep>>

\* the driver polls a pending Sleep without having been woken
SpuriousPoll ==
    /\ TimerIdle
    /\ tm.last = "Pending" /\ tm.cx \notin tm.woken
    /\ tm.extra < MaxExtraPolls
    /\ \E w \in Wakers : tm' = [driver_poll(tm, w) EXCEPT !.extra = @ + 1]
    /\ UNCHANGED <<op, seq, rep>>

\* the driver polls after Ready was reported
LatePoll ==
    /\ TimerIdle
    /\ tm.readys > 0
    /\ tm.extra < MaxExtraPolls
    /\ \E w \in Wakers : tm' = [driver_poll(tm, w) EXCEPT !.extra = @ + 1]
    /\ UNCHANGED <<op, seq, rep>>

\* let mut shared = handle.lock().unwrap();   (polling thread)
PollLock ==
    /\ op = "sleep" /\ tm.p_pc = "lock"
    /\ poller_can_lock(tm)
    /\ tm' = [tm EXCEPT !.lock = "poller", !.p_pc = "check"]
    /\ UNCHANGED <<op, seq, rep>>

\* if !shared.done { ... } else Poll::Ready(())
PollCheck ==
    /\ op = "sleep" /\ tm.p_pc = "check"
    /\ tm' = IF tm.shared.done THEN sleep_ready(tm)
                               ELSE [tm EXCEPT !.p_pc = "refresh"]
    /\ UNCHANGED <<op, seq, rep>>

\* shared.waker.clone_from(cx.waker()); return Poll::Pending;
PollRefresh ==
    /\ op = "sleep" /\ tm.p_pc = "refresh"
    /\ tm' = sleep_pending(tm)
    /\ UNCHANGED <<op, seq, rep>>

\* thread::sleep(duration) returns
WorkerSleepOver ==
    /\ op = "sleep" /\ tm.w_pc = "sleeping"
    /\ sleep_over(tm)
    /\ tm' = [tm EXCEPT !.w_pc = "lock"]
    /\ UNCHANGED <<op, seq, rep>>

\* let mut shared = handle.lock().unwrap();   (spawned thread)
WorkerLock ==
    /\ op = "sleep" /\ tm.w_pc = "lock"
    /\ worker_can_lock(tm)
    /\ tm' = [tm EXCEPT !.lock = "worker", !.w_pc = "set_done"]
    /\ UNCHANGED <<op, seq, rep>>

\* shared.done = true;
WorkerSetDone ==
    /\ op = "sleep" /\ tm.w_pc = "set_done"
    /\ tm' = [tm EXCEPT !.shared.done = TRUE, !.w_pc = "wake"]
    /\ UNCHANGED <<op, seq, rep>>

\* shared.waker.wake_by_ref();
WorkerWake ==
    /\ op = "sleep" /\ tm.w_pc = "wake"
    /\ tm' = worker_wake(tm)
    /\ UNCHANGED <<op, seq, rep>>

\* one tick of time passes after the first poll
Tick ==
    /\ op = "sleep" /\ tm.handle = "Some"
    /\ tm.elapsed < MaxElapsed
    /\ tm' = [tm EXCEPT !.elapsed = @ + 1]
    /\ UNCHANGED <<op, seq, rep>>

\* ================================================= two_ways::until_equals
Values == 1..MaxValue
Factories == [1..MaxFactory -> Values]

\* until_equals(check, next): the async fn is not started; UntilEquals starts
\* with num_fut: None. `vals[k]` is the number yielded by the sub-operation the
\* k-th call of `next` produces. The other fields:
\*   fn_state    state of the `until_equals` async fn
\*   num_fut     0 for None, k for Some(the k-th sub-operation)
\*   next_calls  calls of the factory
\*   sub_ready   sub-operations that have returned Ready
\*   call_polls  sub-operations polled by the last poll call, in order
\*   call_next   calls of the factory made by the last poll call
\*   call_match  TRUE when the last sub-operation poll of the last call
\*               returned Ready with the number `check`
\*   waker_held  the sub-operation that returned Pending to its last poll and
\*               so holds the waker of that poll, 0 when there is none
\*   woken       the waker passed to the last poll has been invoked
\*   extra       polls issued by a driver that was not woken, or after Ready
\*   trace       the calls of the factory and the polls of sub-operations
until_equals(impl, check, vals) ==
    [impl |-> impl, fn_state |-> "Unresumed", check |-> check, vals |-> vals,
     num_fut |-> 0, next_calls |-> 0, sub_ready |-> {},
     polled_after_ready |-> FALSE,
     last |-> "None", readys |-> 0, calls |-> 0, pendings |-> 0,
     call_polls |-> <<>>, call_next |-> 0, call_match |-> FALSE,
     waker_held |-> 0, woken |-> FALSE, extra |-> 0, trace |-> <<>>]

\* return of a poll call of the async fn / the panic unwinding out of it
rep_ret(r, res) ==
    [r EXCEPT !.last = res,
              !.readys = IF res = "Ready" THEN @ + 1 ELSE @,
              !.pendings = IF res = "Pending" THEN @ + 1 ELSE @,
              !.fn_state = IF res = "Ready" THEN "Returned" ELSE @]

\* (this.next)() stored by this.num_fut.set(Some(..)) / `next()` of the loop
next(r) ==
    [r EXCEPT !.next_calls = @ + 1,
              !.call_next = @ + 1,
              !.num_fut = r.next_calls + 1,
              !.trace = Append(@, <<"next", r.next_calls + 1>>)]

\* num_fut.poll(cx): the sub-operation in the slot answers Ready when its
\* index is in `rdy`
num_fut_poll(r, rdy) ==
    [r EXCEPT !.call_polls = Append(@, r.num_fut),
              !.polled_after_ready = @ \/ r.num_fut \in r.sub_ready,
              !.sub_ready = IF r.num_fut \in rdy THEN @ \cup {r.num_fut} ELSE @,
              !.call_match = r.num_fut \in rdy /\ r.vals[r.num_fut] = r.check,
              !.waker_held = IF r.num_fut \in rdy THEN 0 ELSE r.num_fut,
              !.trace = Append(@, <<"poll", r.num_fut>>)]

\* this.num_fut.set(None): the finished sub-operation is dropped
set_none(r) == [r EXCEPT !.num_fut = 0]

\* num == *this.check
equals_check_always(r, num) == TRUE
equals_check(r, num) == num = r.check

\* manual::UntilEquals::poll
UntilEquals_poll_keep_on_mismatch(r, rdy) ==
    LET r1 == IF r.num_fut # 0 THEN r ELSE next(r)
        r2 == num_fut_poll(r1, rdy)
    IN  IF r1.num_fut \in rdy
        THEN IF equals_check(r2, r.vals[r1.num_fut])
             THEN rep_ret(set_none(r2), "Ready")
             ELSE rep_ret(r2, "Pending")
        ELSE rep_ret(r2, "Pending")
UntilEquals_poll_always_next(r, rdy) ==
    LET r1 == next(r)
        r2 == num_fut_poll(r1, rdy)
    IN  IF r1.num_fut \in rdy
        THEN IF equals_check(set_none(r2), r.vals[r1.num_fut])
             THEN rep_ret(set_none(r2), "Ready")
             ELSE rep_ret(set_none(r2), "Pending")
        ELSE rep_ret(r2, "Pending")
UntilEquals_poll(r, rdy) ==
    LET r1 == IF r.num_fut # 0 THEN r ELSE next(r)
        r2 == num_fut_poll(r1, rdy)
    IN  IF r1.num_fut \in rdy
        THEN IF equals_check(set_none(r2), r.vals[r1.num_fut])
             THEN rep_ret(set_none(r2), "Ready")
             ELSE rep_ret(set_none(r2), "Pending")
        ELSE rep_ret(r2, "Pending")

\* auto::until_equals: loop { let num = next().await; if num == check { return } }
RECURSIVE auto_loop(_, _)
auto_loop(r, rdy) ==
    LET r1 == IF r.num_fut # 0 THEN r ELSE next(r)
        r2 == num_fut_poll(r1, rdy)
    IN  IF r1.num_fut \in rdy
        THEN IF equals_check(set_none(r2), r.vals[r1.num_fut])
             THEN rep_ret(set_none(r2), "Ready")
             ELSE auto_loop(set_none(r2), rdy)
        ELSE rep_ret(r2, "Pending")

\* the driver resumes the async fn `until_equals` (manual: it awaits the
\* UntilEquals it built); a completed async fn panics
until_equals_resume_unguarded(r, rdy) ==
    IF r.impl = "manual" THEN UntilEquals_poll(r, rdy) ELSE auto_loop(r, rdy)
until_equals_resume(r, rdy) ==
    IF r.fn_state = "Returned" THEN rep_ret(r, "Panic")
    ELSE IF r.impl = "manual"
         THEN UntilEquals_poll([r EXCEPT !.fn_state = "Suspended"], rdy)
         ELSE auto_loop([r EXCEPT !.fn_state = "Suspended"], rdy)

rep_enter(r) ==
    [r EXCEPT !.calls = @ + 1, !.call_polls = <<>>, !.call_next = 0,
              !.call_match = FALSE, !.woken = FALSE]

\* what the sub-operations answer to the polls of one call: a new one may be
\* ready at once; one that returned Pending is ready once it has completed,
\* which is when it invokes the waker it holds
sub_answers(r) ==
    {rdy \in SUBSET (1..MaxFactory) :
        r.num_fut # 0 => (r.num_fut \in rdy <=> r.woken)}

\* one poll call of the until_equals future
rep_poll(r) ==
    {x \in {until_equals_resume(rep_enter(r), rdy) : rdy \in sub_answers(r)} :
        x.next_calls <= MaxFactory}

\* the driver polls for the first time, or again after the waker it passed last
\* was invoked
RepPoll ==
    /\ op = "until_equals"
    /\ \/ rep.last = "None"
       \/ rep.last = "Pending" /\ rep.woken
    /\ rep' \in rep_poll(rep)
    /\ UNCHANGED <<op, seq, tm>>

\* the driver polls without having been woken, or after Ready was reported
RepExtraPoll ==
    /\ op = "until_equals"
    /\ \/ rep.last = "Pending" /\ ~rep.woken
       \/ rep.readys > 0
    /\ rep.extra < MaxRepCalls
    /\ rep' \in {[x EXCEPT !.extra = @ + 1] : x \in rep_poll(rep)}
    /\ UNCHANGED <<op, seq, tm>>

\* the sub-operation that holds the waker completes and invokes it
SubComplete ==
    /\ op = "until_equals"
    /\ rep.waker_held # 0 /\ ~rep.woken
    /\ rep' = [rep EXCEPT !.woken = TRUE]
    /\ UNCHANGED <<op, seq, tm>>

\* ------------------------------------------------------- specification
\* the driver owns one operation per run; the other two are never built
NoSeq == new("manual")
NoTimer == sleep(0)
NoRep == until_equals("manual", 1, [k \in 1..MaxFactory |-> 1])

Init ==
    \/ /\ op = "a_then_b"
       /\ seq \in {new("manual"), new("manual_opt")}
       /\ tm = NoTimer /\ rep = NoRep
    \/ /\ op = "sleep"
       /\ tm \in {sleep(d) : d \in 0..MaxDuration}
       /\ seq = NoSeq /\ rep = NoRep
    \/ /\ op = "until_equals"
       /\ rep \in {until_equals(i, c, v) :
                      i \in {"auto", "manual"}, c \in Values, v \in Factories}
       /\ seq = NoSeq /\ tm = NoTimer

Next ==
    \/ Poll \/ Discard
    \/ DriverPoll \/ SpuriousPoll \/ LatePoll
    \/ PollLock \/ PollCheck \/ PollRefresh
    \/ WorkerSleepOver \/ WorkerLock \/ WorkerSetDone \/ WorkerWake
    \/ Tick
    \/ RepPoll \/ RepExtraPoll \/ SubComplete

Spec == Init /\ [][Next]_vars

\* the spawned thread, the polling thread and the clock keep running, and a
\* woken driver polls again
Fairness ==
    /\ WF_vars(DriverPoll)
    /\ WF_vars(PollLock) /\ WF_vars(PollCheck) /\ WF_vars(PollRefresh)
    /\ WF_vars(WorkerSleepOver) /\ WF_vars(WorkerLock)
    /\ WF_vars(WorkerSetDone) /\ WF_vars(WorkerWake)
    /\ WF_vars(Tick)

FairSpec == Spec /\ Fairness

\* ================================================================ claims

\* C1: the second operand is never polled before a poll of the first operand
\* has returned Ready, and when the Sequencer reports Ready the log of the
\* operands' completions is exactly <<"A", "B">>.
C1_SecondAfterFirst ==
    /\ ~seq.b_polled_early
    /\ seq.b_polls > 0 => seq.a_ready
    /\ seq.readys > 0 => seq.log = <<"A", "B">>

\* a run in which A was pending at least once, B was pending at least once and
\* the Sequencer then reported Ready
C1_Witness ==
    /\ op = "a_then_b" /\ seq.last = "Ready"
    /\ seq.a_polls > 1 /\ seq.b_polls > 1
    /\ seq.log = <<"A", "B">>

\* C2 (as claimed): B is taken out of its DoingA slot exactly once, the
\* transition DoingA -> DoingB does not run B's destructor, and the slot is
\* never read or released after the take.
C2_TakenOnceSlotUntouched ==
    /\ seq.b_takes <= 1
    /\ seq.variant # "DoingA" => seq.b_takes = 1
    /\ seq.stale_uses = 0
    /\ (seq.variant = "DoingB" /\ seq.owned) => seq.b_drops = 0

\* C3: a Sequencer discarded in DoingA has released the first operand exactly
\* once and the second operand exactly once, and never polled the second.
C3_DiscardInDoingA ==
    (~seq.owned /\ seq.variant = "DoingA") =>
        /\ seq.a_drops = 1
        /\ seq.b_drops = 1
        /\ seq.b_polls = 0
        /\ seq.stale_uses = 0

\* discarded in DoingA after the first operand was polled and was pending
C3_Witness ==
    /\ op = "a_then_b" /\ ~seq.owned /\ seq.variant = "DoingA"
    /\ seq.a_polls > 0
    /\ seq.a_drops = 1 /\ seq.b_drops = 1

\* C4 (as claimed): once the Sequencer has been discarded, at any point, each
\* operand has been released exactly once.
C4_EachReleasedOnce ==
    ~seq.owned => (seq.a_drops = 1 /\ seq.b_drops = 1)

\* C5: the Sequencer reports Ready at most once, it does so in the poll in
\* which the second operand returns Ready and that poll leaves it in Done, and
\* every poll issued in Done panics without polling an operand and without
\* returning a value.
C5_ReadyOnce ==
    /\ seq.readys <= 1
    /\ (seq.last = "Ready" /\ seq.owned) =>
          /\ seq.variant = "Done"
          /\ seq.call_polls # <<>>
          /\ seq.call_polls[Len(seq.call_polls)] = "B"
          /\ seq.b_ready
    /\ seq.variant = "Done" => seq.readys = 1

C5_PollInDonePanics ==
    (seq.variant = "Done" /\ seq'.calls = seq.calls + 1) =>
        /\ seq'.last = "Panic"
        /\ seq'.call_polls = <<>>
        /\ seq'.a_polls = seq.a_polls /\ seq'.b_polls = seq.b_polls
        /\ seq'.readys = seq.readys
        /\ seq'.variant = "Done"

C5_ReadyExactlyOnce == [](C5_ReadyOnce) /\ [][C5_PollInDonePanics]_vars

\* the Sequencer completed and was then polled again
C5_Witness ==
    /\ op = "a_then_b" /\ seq.variant = "Done"
    /\ seq.readys = 1 /\ seq.last = "Panic"

\* C6: no lost wake-up. Whenever the last poll of the Timer returned Pending
\* and the worker has set done, the waker the worker invokes is the one that
\* poll registered: it is still the stored waker while the worker is about to
\* wake, and it has been invoked once the worker has finished. Under fair
\* scheduling a Pending poll is therefore followed by Ready.
C6_WakeReachesLastWaker ==
    (op = "sleep" /\ tm.p_pc = "idle" /\ tm.last = "Pending") =>
        /\ tm.w_pc = "wake" => (tm.shared.done /\ tm.shared.waker = tm.cx)
        /\ tm.w_pc = "exited" => (tm.shared.done /\ tm.cx \in tm.woken)

C6_PendingLeadsToReady ==
    (op = "sleep" /\ tm.last = "Pending") ~> (tm.readys = 1)

C6_NoLostWakeup == [](C6_WakeReachesLastWaker) /\ C6_PendingLeadsToReady

\* a poll returned Pending with a waker other than the first one, the worker
\* then finished and the driver has not polled again yet
C6_Witness ==
    /\ op = "sleep" /\ tm.p_pc = "idle" /\ tm.last = "Pending"
    /\ tm.w_pc = "exited" /\ tm.shared.done
    /\ tm.polls > 1 /\ tm.cx \in tm.woken

\* C7: when a poll of the Timer has returned Ready, at least `duration` ticks
\* have passed since the first poll; for every duration, 0 included.
C7_NotReadyEarly ==
    /\ tm.readys > 0 => tm.elapsed >= tm.duration
    /\ tm.shared.done => tm.elapsed >= tm.duration

\* a Timer of the longest duration reported Ready
C7_Witness ==
    /\ op = "sleep" /\ tm.last = "Ready"
    /\ tm.duration = MaxDuration /\ tm.elapsed >= MaxDuration

\* the index of the first sub-operation that yields `check`, 0 when none does
FirstIndex(vals, check) ==
    IF \E k \in DOMAIN vals : vals[k] = check
    THEN CHOOSE k \in DOMAIN vals :
           vals[k] = check /\ \A j \in 1..(k - 1) : vals[j] # check
    ELSE 0

\* C8: with the target first yielded by the n-th sub-operation, the Repeater
\* has reported Ready only after exactly n calls of the factory, and no
\* sub-operation is polled again after it has returned Ready.
C8_ReadyAfterExactlyN ==
    /\ rep.readys > 0 =>
          /\ FirstIndex(rep.vals, rep.check) # 0
          /\ rep.next_calls = FirstIndex(rep.vals, rep.check)
    /\ ~rep.polled_after_ready

\* the target came from a later sub-operation than the first and the Repeater
\* reported Ready
C8_Witness ==
    /\ op = "until_equals" /\ rep.last = "Ready"
    /\ rep.next_calls > 1
    /\ rep.vals[1] # rep.check

\* C9: a poll of the Repeater returns Ready only if the sub-operation polled
\* last in that call returned Ready with the target; while no sub-operation
\* has yielded the target, every poll so far has returned Pending.
C9_NoSpuriousReady ==
    /\ rep.last = "Ready" => (rep.call_polls # <<>> /\ rep.call_match)
    /\ rep.readys > 0 => \E k \in rep.sub_ready : rep.vals[k] = rep.check
    /\ (\A k \in rep.sub_ready : rep.vals[k] # rep.check) =>
          rep.pendings = rep.calls

\* sub-operations have completed, none with the target, and every poll of the
\* Repeater returned Pending
C9_Witness ==
    /\ op = "until_equals" /\ rep.calls > 1
    /\ rep.sub_ready # {}
    /\ \A k \in rep.sub_ready : rep.vals[k] # rep.check
    /\ rep.pendings = rep.calls

\* C10: a poll of a Timer or of a Repeater that has reported Ready panics: the
\* Timer does not report a result again nor touch its cell or thread, the
\* Repeater does not call the factory nor poll a sub-operation.
C10_TimerLatePoll ==
    (tm.readys > 0 /\ tm'.polls = tm.polls + 1) =>
        /\ tm'.last = "Panic"
        /\ tm'.readys = tm.readys
        /\ tm'.p_pc = "idle"
        /\ tm'.shared = tm.shared /\ tm'.lock = tm.lock
        /\ tm'.spawned = tm.spawned

C10_RepeaterLatePoll ==
    (rep.readys > 0 /\ rep'.calls = rep.calls + 1) =>
        /\ rep'.last = "Panic"
        /\ rep'.readys = rep.readys
        /\ rep'.next_calls = rep.next_calls
        /\ rep'.call_polls = <<>> /\ rep'.call_next = 0

C10_PollAfterReadyPanics ==
    /\ [](tm.readys <= 1 /\ rep.readys <= 1)
    /\ [][C10_TimerLatePoll /\ C10_RepeaterLatePoll]_vars

\* a Timer reported Ready and was polled again
C10_Witness ==
    /\ op = "sleep" /\ tm.readys = 1 /\ tm.last = "Panic"

\* a Repeater reported Ready and was polled again
C10_WitnessRepeater ==
    /\ op = "until_equals" /\ rep.readys = 1 /\ rep.last = "Panic"

\* the run of an until_equals future under a driver that polls again only
\* after the waker it passed was invoked: the sub-operations in `imm` are ready
\* at their first poll, the others complete after it and invoke the waker. The
\* run ends with Ready, or with "Never" when a poll returned Pending and no
\* sub-operation holds the waker.
RECURSIVE drive(_, _)
drive(r, imm) ==
    IF r.last = "Pending" /\ r.waker_held = 0 THEN [r EXCEPT !.last = "Never"]
    ELSE LET held == IF r.num_fut # 0 THEN {r.num_fut} ELSE {}
             r1 == until_equals_resume(rep_enter(r), imm \cup held)
         IN  IF r1.last = "Pending" THEN drive(r1, imm) ELSE r1

\* the sub-operations of the run so far that were ready at their first poll
Immediate(r) ==
    {k \in r.sub_ready :
        Cardinality({i \in DOMAIN r.trace : r.trace[i] = <<"poll", k>>}) = 1}

Other(impl) == IF impl = "auto" THEN "manual" ELSE "auto"

\* C11 (as claimed): driven side by side on the same factory, target and
\* sub-operation behaviour by a driver that polls again only when woken, auto
\* and manual make the same factory calls and sub-operation polls and both
\* report Ready or both never do. Stated when the run of one realization has
\* come to rest (Ready, or Pending with nothing left to wake the driver),
\* against the run of the other one from the start.
C11_AutoManualAgree ==
    (/\ op = "until_equals" /\ rep.extra = 0
     /\ FirstIndex(rep.vals, rep.check) # 0
     /\ \/ rep.last = "Ready"
        \/ rep.last = "Pending" /\ rep.waker_held = 0) =>
        \A imm \in SUBSET (1..MaxFactory) :
            (imm \cap (1..rep.next_calls) = Immediate(rep)) =>
                LET o == drive(until_equals(Other(rep.impl), rep.check,
                                            rep.vals), imm)
                IN  /\ o.trace = rep.trace
                    /\ (o.last = "Ready") <=> (rep.last = "Ready")

\* C16: slot discipline of manual::UntilEquals::poll. In every call of it the
\* factory is called exactly when the slot was empty at the start, and then
\* once; exactly one sub-operation is polled, the one in the slot or else the
\* new one; when it returns Pending it stays in the slot (so the next call
\* polls it again without calling the factory), when it returns Ready the slot
\* is empty on return, whether or not the number matched.
C16_Call ==
    (/\ rep.impl = "manual" /\ rep.fn_state # "Returned"
     /\ rep'.calls = rep.calls + 1) =>
        /\ rep'.call_next = (IF rep.num_fut = 0 THEN 1 ELSE 0)
        /\ rep'.next_calls = rep.next_calls + rep'.call_next
        /\ rep'.call_polls =
              << IF rep.num_fut = 0 THEN rep.next_calls + 1 ELSE rep.num_fut >>
        /\ rep'.num_fut = (IF rep'.call_polls[1] \in rep'.sub_ready
                           THEN 0 ELSE rep'.call_polls[1])
        /\ rep'.last \in {"Pending", "Ready"}

C16_SlotDiscipline == [][C16_Call]_vars

\* a sub-operation was pending, stayed in the slot, was polled again by the
\* next call and returned Ready with another number than the target
C16_Witness ==
    /\ op = "until_equals" /\ rep.impl = "manual"
    /\ rep.calls > 1 /\ rep.call_next = 0 /\ rep.call_polls # <<>>
    /\ rep.num_fut = 0 /\ rep.last = "Pending"

\* C19 (as claimed): every Pending returned by the manual Repeater leaves a
\* wake arranged: a sub-operation holds the waker of that poll.
C19_PendingHasWake ==
    (op = "until_equals" /\ rep.impl = "manual" /\ rep.last = "Pending") =>
        rep.waker_held # 0

\* the same Sequencer state seen as one realization or the other
As(s, impl) == [s EXCEPT !.impl = impl]

\* C12: from every reachable state and for every answer of the operands, a
\* poll call of the looping realization and one of the tail-delegating
\* realization issue the same operand polls, return the same result, release
\* the same operands and leave the same state, and so does a discard; when the
\* first operand returns Ready the second is polled within the same call.
C12_ManualOptEquivalent ==
    (op = "a_then_b" /\ seq.owned /\ seq.last # "Abort") =>
        \A in \in SeqInputs :
            LET m == poll(As(seq, "manual"), in)
                o == poll(As(seq, "manual_opt"), in)
                dm == drop_in_place(As(seq, "manual"), in)
                do == drop_in_place(As(seq, "manual_opt"), in)
            IN  /\ As(m, "x") = As(o, "x")
                /\ As(dm, "x") = As(do, "x")
                /\ (seq.variant = "DoingA" /\ in.a = "Ready") =>
                      (m.call_polls = <<"A", "B">> /\ o.call_polls = <<"A", "B">>)

\* the tail-delegating realization polled both operands in one call and
\* reported Ready
C12_Witness ==
    /\ op = "a_then_b" /\ seq.impl = "manual_opt"
    /\ seq.call_polls = <<"A", "B">> /\ seq.last = "Ready"

Rank(v) == CASE v = "DoingA" -> 1 [] v = "DoingB" -> 2 [] v = "Done" -> 3

\* C17: the Sequencer is always in exactly one of DoingA, DoingB, Done; its
\* state only moves forward, out of DoingA only in a step in which the first
\* operand returns Ready and into Done only in a step in which the second
\* returns Ready; Done is never left; a poll whose polled operand returns
\* Pending returns Pending and leaves the state and the other operand alone.
C17_Step ==
    /\ seq'.variant \in {"DoingA", "DoingB", "Done"}
    /\ Rank(seq'.variant) >= Rank(seq.variant)
    /\ (seq.variant = "DoingA" /\ seq'.variant # "DoingA") =>
          (~seq.a_ready /\ seq'.a_ready)
    /\ (seq.variant # "Done" /\ seq'.variant = "Done") =>
          (~seq.b_ready /\ seq'.b_ready)
    /\ seq.variant = "Done" => seq'.variant = "Done"
    /\ (seq'.calls = seq.calls + 1 /\ seq.variant = "DoingA"
          /\ ~seq'.a_ready) =>
          /\ seq'.last = "Pending" /\ seq'.call_polls = <<"A">>
          /\ seq'.variant = "DoingA"
          /\ seq'.b_polls = seq.b_polls /\ seq'.b_drops = seq.b_drops
          /\ seq'.b_takes = seq.b_takes /\ seq'.a_drops = seq.a_drops
    /\ (seq'.calls = seq.calls + 1 /\ seq.variant = "DoingB"
          /\ ~seq'.b_ready /\ seq'.last # "Abort") =>
          /\ seq'.last = "Pending" /\ seq'.call_polls = <<"B">>
          /\ seq'.variant = "DoingB"
          /\ seq'.a_polls = seq.a_polls /\ seq'.a_drops = seq.a_drops
          /\ seq'.b_drops = seq.b_drops

C17_PhaseMonotone ==
    /\ [](seq.variant \in {"DoingA", "DoingB", "Done"})
    /\ [][C17_Step]_vars

\* the second operand was pending in DoingB at least twice
C17_Witness ==
    /\ op = "a_then_b" /\ seq.variant = "DoingB"
    /\ seq.b_polls > 1 /\ seq.last = "Pending" /\ seq.call_polls = <<"B">>

\* C20: an operand that has returned Ready is never polled again: the first
\* operand is released in the call in which it returned Ready and the state
\* has left DoingA; after the second returned Ready the state is Done.
C20_State ==
    /\ ~seq.used_after_ready
    /\ seq.a_ready => (seq.a_drops = 1 /\ seq.variant # "DoingA")
    /\ (seq.b_ready /\ seq.last # "Abort") => seq.variant = "Done"

C20_Step ==
    /\ seq.a_ready => seq'.a_polls = seq.a_polls
    /\ seq.b_ready => seq'.b_polls = seq.b_polls

C20_NoPollAfterReady == [](C20_State) /\ [][C20_Step]_vars

\* both operands have returned Ready and the Sequencer was polled on
C20_Witness ==
    /\ op = "a_then_b" /\ seq.a_ready /\ seq.b_ready
    /\ seq.calls > seq.a_polls /\ seq.calls > seq.b_polls
    /\ seq.last = "Panic"

\* C13: the waker the worker invokes on completion is the one supplied by the
\* most recent poll that returned Pending: every such poll stores its waker
\* under the lock, and the worker invokes the stored one.
C13_State ==
    (tm.invoked # 0 /\ tm.pending_waker # 0) => tm.invoked = tm.pending_waker

C13_Step ==
    /\ (tm.p_pc = "refresh" /\ tm'.p_pc = "idle") =>
          (tm.lock = "poller" /\ tm'.shared.waker = tm.cx
             /\ tm'.last = "Pending")
    /\ (tm.w_pc = "wake" /\ tm'.w_pc = "exited") =>
          (tm'.invoked = tm.shared.waker /\ tm'.invoked \in tm'.woken)

C13_LatestWakerInvoked == [](C13_State) /\ [][C13_Step]_vars

\* the worker invoked a waker that is not the one the first poll supplied
C13_Witness ==
    /\ op = "sleep" /\ tm.w_pc = "exited"
    /\ tm.invoked # tm.first_waker /\ tm.invoked = tm.pending_waker

\* C14: done starts false, only the worker writes it, it goes from false to
\* true once and is never reset; done and the stored waker of the shared cell
\* are read and written only by the holder of the lock; a poll returns Ready
\* exactly when it observes done = true.
C14_State ==
    /\ tm.handle = "None" => ~tm.shared.done
    /\ tm.p_pc \in {"check", "refresh"} => tm.lock = "poller"
    /\ tm.w_pc \in {"set_done", "wake"} => tm.lock = "worker"
    /\ tm.readys > 0 => tm.shared.done

C14_Step ==
    /\ tm.shared.done => tm'.shared.done
    /\ tm'.shared.done # tm.shared.done =>
          (tm.w_pc = "set_done" /\ tm.lock = "worker")
    /\ (tm.handle = "Some" /\ tm'.shared.waker # tm.shared.waker) =>
          (tm.p_pc = "refresh" /\ tm.lock = "poller")
    /\ (tm'.readys = tm.readys + 1) <=>
          (tm.p_pc = "check" /\ tm'.p_pc # "check" /\ tm.shared.done)
    /\ (tm.p_pc = "check" /\ tm'.p_pc # "check" /\ ~tm.shared.done) =>
          (tm'.p_pc = "refresh" /\ tm'.readys = tm.readys)

C14_DoneMonotone == [](C14_State) /\ [][C14_Step]_vars

\* a poll returned Pending, the worker then set done and a later poll
\* returned Ready
C14_Witness ==
    /\ op = "sleep" /\ tm.shared.done /\ tm.readys = 1
    /\ tm.pending_waker # 0 /\ tm.w_pc = "exited"

\* C15: before the first poll a Timer has no worker and no shared cell; from
\* the first poll on there is exactly one of each, however often it is polled.
C15_OneWorkerOneCell ==
    /\ tm.polls = 0 =>
          /\ tm.spawned = 0 /\ tm.cells = 0
          /\ tm.handle = "None" /\ tm.w_pc = "unspawned"
    /\ tm.polls > 0 =>
          /\ tm.spawned = 1 /\ tm.cells = 1
          /\ tm.handle = "Some" /\ tm.w_pc # "unspawned"

\* a pending Timer was polled spuriously and still has one worker
C15_Witness ==
    /\ op = "sleep" /\ tm.polls > 2 /\ tm.extra > 0
    /\ tm.readys = 0 /\ tm.spawned = 1 /\ tm.cells = 1

\* C18: while the worker waits out the duration it does not hold the lock: a
\* poll that wants the lock then finds it free, and a poll that ends during
\* the wait returns Pending.
C18_State ==
    tm.w_pc = "sleeping" =>
        /\ tm.lock \in {"free", "poller"}
        /\ tm.p_pc = "lock" => (tm.lock = "free" /\ poller_can_lock(tm))
        /\ ~tm.shared.done

C18_Step ==
    (tm.w_pc = "sleeping" /\ tm.p_pc # "idle" /\ tm'.p_pc = "idle") =>
        tm'.last = "Pending"

C18_LockNotHeldAcrossWait == [](C18_State) /\ [][C18_Step]_vars

\* time has passed, the worker is still waiting and a poll returned Pending
C18_Witness ==
    /\ op = "sleep" /\ tm.w_pc = "sleeping" /\ tm.elapsed > 0
    /\ tm.polls > 1 /\ tm.p_pc = "idle" /\ tm.last = "Pending"

====
